---- MODULE Spec2Model ----
(***************************************************************************)
(* State-machine model of the OBD-II diagnostic scripts of the repository: *)
(*   po4220V2.py         (script "v2")    P0420 catalyst diagnostic        *)
(*   po420_honda_spec.py (script "honda") Honda O2 sensor PID probing      *)
(*   test_vin.py         (script "vin")   VIN retrieval fallback chain     *)
(*   elm327_tsx_reader.py (script "elm")  menu driven scanner              *)
(*   print_codes.py      (script "codes") command discovery tool           *)
(* One run of the model is one run of one script's main().  The external   *)
(* python-OBD connection is the environment: every connection.query(...)   *)
(* is one transmission (appended to sent) whose response is drawn from a   *)
(* bounded set: a value, None (no data) or a raised exception.             *)
(*                                                                         *)
(* Units: voltages are in centivolts (0.1 V = 10), fuel trims in whole     *)
(* percent, temperatures in degrees Celsius.                               *)
(***************************************************************************)
EXTENDS Integers, Sequences, FiniteSets, TLC

VARIABLES
    script,         \* which script's main() is running
    pc,             \* position in that script
    avail,          \* names hasattr(obd.commands, name) was seen to hold for
    absent,         \* names hasattr(obd.commands, name) was seen to fail for
    conn,           \* "none" | "open" | "closed"
    sent,           \* identities transmitted with connection.query, in order
                    \* (po420_honda_spec: restarted when the analysis begins)
    idx,            \* index of the running for-loop
    reading,        \* last sensor reading printed: [pos, st, val, analysis]
    found_temp,     \* read_catalyst_temp: found_temp
    catResults,     \* read_catalyst_temp: result of each candidate processed
    catOutcome,     \* read_catalyst_temp: what the probe reported
    working_sensors,\* po420_honda_spec main: names/PIDs that answered
    round,          \* live_o2_monitoring: passes of the while-loop so far
    stft,           \* analyze_p0420_without_o2: short term trim response
    ltft,           \* analyze_p0420_without_o2: long term trim response
    fuelMixture,    \* analyze_p0420_without_o2: fuel mixture verdict
    analysisError,  \* analyze_p0420_without_o2: exception the except caught
    diagnosis,      \* analyze_p0420_without_o2: the diagnosis printed last
    vin,            \* test_vin main: what test_vin_command returned
    vinReport,      \* test_vin main: what the fallback steps printed
    menus,          \* main of elm327_tsx_reader and of print_codes: menu
                    \* choices read so far
    choice,         \* the same: the menu choice read last
    response,       \* clear_dtcs: the confirmation read last
    interrupted,    \* the KeyboardInterrupt raised in this run, if any:
                    \* [where, inflight]
    library,        \* print_codes: the attributes of obd.commands
    search_term,    \* print_codes main: the search term read last
    results,        \* search_commands: the names printed
    categories,     \* list_all_commands: the names listed per category
    lookup,         \* test_command_exists: what the last call printed
    adhoc           \* the obd.OBDCommand objects constructed by the script:
                    \* [identity, pid] (po420_honda_spec: restarted with
                    \* sent)

v2Vars == <<found_temp, catResults, catOutcome>>
hondaVars == <<working_sensors, round, stft, ltft, fuelMixture,
               analysisError, diagnosis>>

vinVars == <<vin, vinReport>>

elmVars == <<menus, choice, response>>

codesVars == <<library, search_term, results, categories, lookup>>

\* What the actions of one script leave alone: the other scripts' variables.
notV2 == <<hondaVars, vinVars, elmVars, codesVars>>
notHonda == <<v2Vars, vinVars, elmVars, codesVars>>
notVin == <<v2Vars, hondaVars, elmVars, codesVars>>
notElm == <<v2Vars, hondaVars, vinVars, codesVars>>
notCodes == <<v2Vars, hondaVars, vinVars, response>>

vars == <<script, interrupted, adhoc, pc, avail, absent, conn, sent, idx,
          reading, v2Vars, hondaVars, vinVars, elmVars, codesVars>>

(***************************************************************************)
(* Bounds of the model.                                                    *)
(***************************************************************************)
\* largest O2 voltage the vehicle answers with, in centivolts
MaxCentiVolt == 100
\* largest magnitude of a fuel trim the vehicle answers with, in percent
MaxTrim == 26
\* most passes of the while-loop of live_o2_monitoring within its 30 s
MaxRounds == 2
\* largest PID number a supported-PIDs answer can name
MaxPid == 3
\* most menu choices of one elm327_tsx_reader session before the user exits
MaxMenu == 2

(***************************************************************************)
(* Text: Python strings are sequences of one-character strings, so that    *)
(* the substring tests of the code are computed, not assumed.              *)
(***************************************************************************)
IsSubstring(needle, hay) ==
    \E i \in 0..(Len(hay) - Len(needle)) :
        \A j \in 1..Len(needle) : hay[i + j] = needle[j]

Abs(x) == IF x < 0 THEN -x ELSE x

Last(s) == s[Len(s)]

Count(s, x) == Cardinality({i \in 1..Len(s) : s[i] = x})

(***************************************************************************)
(* Responses of connection.query: response.value is a value, or None, or   *)
(* the call raises.                                                        *)
(***************************************************************************)
Ok(v) == [st |-> "Ok", val |-> v]
NoData == [st |-> "NoData", val |-> 0]
TransportError == [st |-> "TransportError", val |-> 0]
Unsupported == [st |-> "Unsupported", val |-> 0]
NotTried == [st |-> "NotTried", val |-> 0]

\* What the except clause of a query prints for an exception e: its text
\* ("Shown", the message holds {e}) or not ("Dropped"); "None" when nothing
\* was raised.
FailureDetail(r, prints_e) ==
    IF r.st = "TransportError"
    THEN IF prints_e THEN "Shown" ELSE "Dropped"
    ELSE "None"

\* none is the val placeholder of an answer without a value, of the type
\* of the values.
ResponsesOf(values, none) ==
    {Ok(v) : v \in values}
    \cup {[st |-> "NoData", val |-> none],
          [st |-> "TransportError", val |-> none]}

Responses(values) == ResponsesOf(values, 0)

Voltages == 0..MaxCentiVolt
Trims == (-MaxTrim)..MaxTrim
\* catalyst temperatures around the two thresholds of the analysis
Temperatures == {299, 300, 800, 801}
\* values of the probes whose value is only printed
ProbeValues == {0}
\* string answers: empty, or a text such as a VIN
Texts == {"", "JH4CU26609C000001"}
\* answers of a supported-PIDs request, decoded to the set of PIDs
PidSets == SUBSET (1..MaxPid)
\* answers of a trouble code request: the list of stored codes
DtcLists == {<<>>, <<"P0420">>}

\* Mutant: a query that transmits its command a second time.
QueryWithRetry(log, cmd) == Append(Append(log, cmd), cmd)

\* connection.query(cmd): one transmission of cmd on the connection.
Query(log, cmd) == Append(log, cmd)

(***************************************************************************)
(* po4220V2.py: thresholds of the printed analyses.                        *)
(***************************************************************************)
\* upstream "voltage < 0.1", in centivolts
O2LeanBelow == 10
\* upstream "voltage > 0.9", in centivolts
O2RichAbove == 90
\* downstream "voltage < 0.6", in centivolts
O2CatBelow == 60
\* "abs(trim_percent) > 25"
TrimHighAbove == 25
\* "abs(trim_percent) > 10"
TrimElevatedAbove == 10
\* "temp_c > 800"
CatHighAbove == 800
\* "temp_c < 300"
CatLowBelow == 300

\* "Upstream"
Upstream == <<"U", "p", "s", "t", "r", "e", "a", "m">>
\* "Pre-Cat"
PreCat == <<"P", "r", "e", "-", "C", "a", "t">>
\* "Bank 1 Sensor 1 (Upstream/Pre-Cat)"
DescB1S1 == <<"B", "a", "n", "k", " ", "1", " ", "S", "e", "n", "s", "o",
    "r", " ", "1", " ", "(", "U", "p", "s", "t", "r", "e", "a", "m", "/",
    "P", "r", "e", "-", "C", "a", "t", ")">>
\* "Bank 1 Sensor 2 (Downstream/Post-Cat)"
DescB1S2 == <<"B", "a", "n", "k", " ", "1", " ", "S", "e", "n", "s", "o",
    "r", " ", "2", " ", "(", "D", "o", "w", "n", "s", "t", "r", "e", "a",
    "m", "/", "P", "o", "s", "t", "-", "C", "a", "t", ")">>
\* "Bank 2 Sensor 1 (Upstream)"
DescB2S1 == <<"B", "a", "n", "k", " ", "2", " ", "S", "e", "n", "s", "o",
    "r", " ", "1", " ", "(", "U", "p", "s", "t", "r", "e", "a", "m", ")">>
\* "Bank 2 Sensor 2 (Downstream)"
DescB2S2 == <<"B", "a", "n", "k", " ", "2", " ", "S", "e", "n", "s", "o",
    "r", " ", "2", " ", "(", "D", "o", "w", "n", "s", "t", "r", "e", "a",
    "m", ")">>

\* read_o2_sensors: the (command, description, location) list; the Bank 2
\* pair is appended when the library has O2_B2S1.
o2_commands(have) ==
    <<[cmd |-> "O2_B1S1", description |-> DescB1S1,
       location |-> "Pre-catalytic converter"],
      [cmd |-> "O2_B1S2", description |-> DescB1S2,
       location |-> "Post-catalytic converter"]>>
    \o (IF "O2_B2S1" \in have
        THEN <<[cmd |-> "O2_B2S1", description |-> DescB2S1,
                location |-> "Pre-catalytic converter"],
               [cmd |-> "O2_B2S2", description |-> DescB2S2,
                location |-> "Post-catalytic converter"]>>
        ELSE <<>>)

\* Mutant: only "Pre-Cat" marks an upstream sensor.
IsUpstreamDescriptionPreCatOnly(description) ==
    IsSubstring(PreCat, description)

\* read_o2_sensors: the branch "Upstream" in description or "Pre-Cat" in
\* description.
IsUpstreamDescription(description) ==
    IsSubstring(Upstream, description) \/ IsSubstring(PreCat, description)

\* Mutant: the comparisons include their bounds.
classifyO2SensorInclusive(description, voltage) ==
    IF IsUpstreamDescription(description)
    THEN IF voltage <= O2LeanBelow THEN "LeanSuspect"
         ELSE IF voltage >= O2RichAbove THEN "RichSuspect"
         ELSE "NormalSwitching"
    ELSE IF voltage <= O2CatBelow THEN "CatalystLikelyOk"
         ELSE "CatalystLikelyFailing"

\* read_o2_sensors: the analysis printed for a voltage.
\*   LeanSuspect           "Very lean (possible vacuum leak)"
\*   RichSuspect           "Very rich (possible fuel system issue)"
\*   NormalSwitching       "Normal switching range"
\*   CatalystLikelyOk      "Cat working (...)"
\*   CatalystLikelyFailing "High voltage suggests cat inefficiency"
classifyO2Sensor(description, voltage) ==
    IF IsUpstreamDescription(description)
    THEN IF voltage < O2LeanBelow THEN "LeanSuspect"
         ELSE IF voltage > O2RichAbove THEN "RichSuspect"
         ELSE "NormalSwitching"
    ELSE IF voltage < O2CatBelow THEN "CatalystLikelyOk"
         ELSE "CatalystLikelyFailing"

\* read_fuel_trim: the (command) list; Bank 2 is appended when the library
\* has SHORT_FUEL_TRIM_2.
fuel_commands(have) ==
    <<"SHORT_FUEL_TRIM_1", "LONG_FUEL_TRIM_1">>
    \o (IF "SHORT_FUEL_TRIM_2" \in have
        THEN <<"SHORT_FUEL_TRIM_2", "LONG_FUEL_TRIM_2">>
        ELSE <<>>)

\* read_fuel_trim: the analysis printed for one trim value.
classifyTrimValue(trim_percent) ==
    IF Abs(trim_percent) > TrimHighAbove THEN "HIGH"
    ELSE IF Abs(trim_percent) > TrimElevatedAbove THEN "ELEVATED"
    ELSE "NORMAL"

\* read_catalyst_temp: the candidate names, in probing order.
temp_commands == <<"CATALYST_TEMP_B1S1", "CAT_TEMP_B1", "CATALYST_TEMP">>

\* read_catalyst_temp: the analysis printed for a temperature that has a
\* celsius attribute.
classifyCatalystTemp(temp_c) ==
    IF temp_c > CatHighAbove THEN "HIGH"
    ELSE IF temp_c < CatLowBelow THEN "LOW"
    ELSE "NORMAL"

\* Mutant: any answer of a supported candidate ends the loop.
CatalystProbeBreaksOnAnyAnswer(r) == TRUE

\* Mutant: the break is missing.
CatalystProbeNeverBreaks(r) == FALSE

\* read_catalyst_temp: a candidate whose response carries a value ends the
\* loop (found_temp = True; break); None falls through to the next
\* candidate and an exception continues with it.
CatalystProbeBreaks(r) == r.st = "Ok"

(***************************************************************************)
(* po420_honda_spec.py: candidate lists and the fuel trim analysis.        *)
(***************************************************************************)
\* test_all_o2_sensor_pids: names looked up in the library, in order.
standard_pids == <<"O2_B1S1", "O2_B1S2", "O2_B2S1", "O2_B2S2">>

\* test_all_o2_sensor_pids: raw PIDs wrapped in a custom OBDCommand.
honda_specific_pids == <<"0115", "0116", "0117", "0118", "0119">>

\* test_wideband_o2_sensors: raw air-fuel-ratio PIDs.
afr_pids == <<"0124", "0125", "0126", "0127">>

\* "total_trim < 10"
TotalTrimExcellentBelow == 10
\* "total_trim < 20"
TotalTrimAcceptableBelow == 20

\* Mutant: the bounds belong to the lower class.
classifyFuelTrimInclusive(s, l) ==
    IF s.st = "Ok" /\ l.st = "Ok"
    THEN LET total_trim == Abs(s.val) + Abs(l.val) IN
         IF total_trim <= TotalTrimExcellentBelow THEN "Normal"
         ELSE IF total_trim <= TotalTrimAcceptableBelow THEN "Elevated"
         ELSE "High"
    ELSE "Unknown"

\* Mutant: one present value is enough to enter the branch, where abs(None)
\* raises TypeError.
classifyFuelTrimEitherPresent(s, l) ==
    IF s.st = "Ok" \/ l.st = "Ok"
    THEN IF s.st = "Ok" /\ l.st = "Ok"
         THEN LET total_trim == Abs(s.val) + Abs(l.val) IN
              IF total_trim < TotalTrimExcellentBelow THEN "Normal"
              ELSE IF total_trim < TotalTrimAcceptableBelow THEN "Elevated"
              ELSE "High"
         ELSE "TypeError"
    ELSE "Unknown"

\* analyze_p0420_without_o2: the fuel mixture verdict from the two trim
\* responses; nothing is printed ("Unknown") unless both values are present.
\*   Normal   "FUEL MIXTURE: Excellent - not causing P0420"
\*   Elevated "FUEL MIXTURE: Acceptable - probably not causing P0420"
\*   High     "FUEL MIXTURE: Poor - could contribute to P0420"
classifyFuelTrim(s, l) ==
    IF s.st = "Ok" /\ l.st = "Ok"
    THEN LET total_trim == Abs(s.val) + Abs(l.val) IN
         IF total_trim < TotalTrimExcellentBelow THEN "Normal"
         ELSE IF total_trim < TotalTrimAcceptableBelow THEN "Elevated"
         ELSE "High"
    ELSE "Unknown"

\* Nothing printed yet.
NoDiagnosis == [mixture |-> "None", catalyst |-> "None"]

\* analyze_p0420_without_o2: the closing diagnosis.  It is fixed text:
\* "Engine mixture is NOT causing P0420", "Problem is likely: 1. Catalytic
\* converter efficiency loss (most likely)".
PrintedDiagnosis == [mixture |-> "NotCausing", catalyst |-> "LikelyFailing"]

\* str.lower() on the answers the prompts are given.
Lower(s) == IF s = "Y" THEN "y" ELSE IF s = "N" THEN "n" ELSE s

\* Answers typed at a y/N prompt.
Answers == {"y", "Y", "n", "N", "", "yes"}

\* No input was read yet.
NoInput == "-"

(***************************************************************************)
(* test_vin.py                                                             *)
(***************************************************************************)
\* Mutant: the standard VIN request is missing from the list.
vin_pids_without_0902 == <<"0904", "090A">>

\* test_raw_vin_commands: the raw PIDs, in order.
vin_pids == <<"0902", "0904", "090A">>

\* test_elm327_info: the library commands queried after the protocol.
info_commands == <<"ELM_VERSION", "ELM_VOLTAGE">>

\* "if response.value:" on a text (empty = "") or a set of PIDs
\* (empty = {}): a value that is there and not empty.
Truthy(r, empty) == r.st = "Ok" /\ r.val # empty

\* Mutant: main runs the fallback steps whatever test_vin_command returned.
MainAfterVinCommandAlways(v) == "vin_pids"

\* main: "if not vin:" runs the fallback steps, otherwise the try block
\* ends and the finally block runs.
MainAfterVinCommand(v) == IF Truthy(v, "") THEN "finally" ELSE "vin_pids"

\* Nothing printed yet by the fallback steps.
NoVinReport ==
    [raw0902 |-> "NotTried", pid02 |-> "Unknown", alternatives |-> FALSE]

(***************************************************************************)
(* elm327_tsx_reader.py                                                    *)
(***************************************************************************)
\* read_live_data: the commands read, in order.
commands ==
    <<"RPM", "SPEED", "THROTTLE_POS", "ENGINE_LOAD", "COOLANT_TEMP",
      "INTAKE_TEMP", "MAF", "FUEL_PRESSURE", "O2_B1S1",
      "SHORT_FUEL_TRIM_1", "LONG_FUEL_TRIM_1">>

\* read_vehicle_info: the commands read, in order.
vehicle_info_commands == <<"VIN", "ELM_VERSION", "ELM_VOLTAGE">>

\* main: what the menu accepts after strip(), "x" standing for any other
\* input.
Choices == {"1", "2", "3", "4", "5", "x"}

\* main: the branch taken for a menu choice.
MenuBranch(c) ==
    CASE c = "1" -> "read_dtcs"
      [] c = "2" -> "read_live_data"
      [] c = "3" -> "clear_dtcs"
      [] c = "4" -> "read_vehicle_info"
      [] c = "5" -> "finally"
      [] OTHER -> "menu"

\* No KeyboardInterrupt was raised.
NoInterrupt == [where |-> "None", inflight |-> ""]

\* Any other confirmation than "n" clears.
ClearConfirmedUnlessNo(answer) == Lower(answer) # "n"

\* clear_dtcs: "if response.lower() == 'y'".
ClearConfirmed(answer) == Lower(answer) = "y"

\* What a reading looks like before anything was printed.
NoReading == [cmd |-> "", st |-> "NotTried", val |-> 0, analysis |-> "None",
                                        detail |-> "None"]

\* hasattr(obd.commands, name) = h.  What the installed library holds is
\* fixed for a run but unknown to the script: the first lookup of a name
\* decides it either way and later lookups of that name agree with it.
Hasattr(name, h) ==
    /\ name \in avail => h
    /\ name \in absent => ~h
    /\ avail' = IF h THEN avail \cup {name} ELSE avail
    /\ absent' = IF h THEN absent ELSE absent \cup {name}

(***************************************************************************)
(* print_codes.py: discovery of the commands of the installed library.     *)
(***************************************************************************)
\* The characters of the texts, in code point order (the order sorted()
\* and dir() compare by).
CodePoints ==
    <<" ", "-", "0", "1", "2", "3", "4", "5", "6", "7", "8", "9", ":", "A",
    "B", "C", "D", "E", "F", "G", "H", "I", "J", "K", "L", "M", "N",
    "O", "P", "Q", "R", "S", "T", "U", "V", "W", "X", "Y", "Z", "_",
    "a", "b", "c", "d", "e", "f", "g", "h", "i", "j", "k", "l", "m",
    "n", "o", "p", "q", "r", "s", "t", "u", "v", "w", "x", "y", "z">>

\* ord(): the code point order of each character.
ord ==
    [c \in {CodePoints[i] : i \in 1..Len(CodePoints)} |->
        CHOOSE i \in 1..Len(CodePoints) : CodePoints[i] = c]

\* a < b for two strings, as Python compares them.
StrLess(a, b) ==
    \E k \in 1..(Len(a) + 1) :
        /\ k <= Len(b)
        /\ \A j \in 1..(k - 1) : a[j] = b[j]
        /\ k = Len(a) + 1 \/ ord[a[k]] < ord[b[k]]

LowerLetters ==
    <<"a", "b", "c", "d", "e", "f", "g", "h", "i", "j", "k", "l", "m", "n",
    "o", "p", "q", "r", "s", "t", "u", "v", "w", "x", "y", "z">>
UpperLetters ==
    <<"A", "B", "C", "D", "E", "F", "G", "H", "I", "J", "K", "L", "M", "N",
    "O", "P", "Q", "R", "S", "T", "U", "V", "W", "X", "Y", "Z">>

\* The upper case of each character.
upper ==
    [c \in {CodePoints[i] : i \in 1..Len(CodePoints)} |->
        IF \E k \in 1..Len(LowerLetters) : LowerLetters[k] = c
        THEN UpperLetters[CHOOSE k \in 1..Len(LowerLetters) :
                             LowerLetters[k] = c]
        ELSE c]

\* The lower case of each character.
lower ==
    [c \in {CodePoints[i] : i \in 1..Len(CodePoints)} |->
        IF \E k \in 1..Len(UpperLetters) : UpperLetters[k] = c
        THEN LowerLetters[CHOOSE k \in 1..Len(UpperLetters) :
                             UpperLetters[k] = c]
        ELSE c]

\* str.upper()
str_upper(s) == [i \in 1..Len(s) |-> upper[s[i]]]

\* str.lower()
str_lower(s) == [i \in 1..Len(s) |-> lower[s[i]]]

\* An attribute of obd.commands: its name, whether its value has the
\* attributes name and desc (an OBD command), and the desc.
Attribute(attr_name, is_command, desc) ==
    [attr_name |-> attr_name, is_command |-> is_command, desc |-> desc]

\* Names and descriptions of commands an installed library may hold.
\* "RPM"
Name_RPM == <<"R", "P", "M">>
\* "Engine RPM"
Desc_RPM == <<"E", "n", "g", "i", "n", "e", " ", "R", "P", "M">>
\* "FUEL_PRESSURE"
Name_FUEL_PRESSURE ==
    <<"F", "U", "E", "L", "_", "P", "R", "E", "S", "S", "U", "R", "E">>
\* "Fuel Pressure"
Desc_FUEL_PRESSURE ==
    <<"F", "u", "e", "l", " ", "P", "r", "e", "s", "s", "u", "r", "e">>
\* "COOLANT_TEMP"
Name_COOLANT_TEMP ==
    <<"C", "O", "O", "L", "A", "N", "T", "_", "T", "E", "M", "P">>
\* "Engine Coolant Temperature"
Desc_COOLANT_TEMP ==
    <<"E", "n", "g", "i", "n", "e", " ", "C", "o", "o", "l", "a", "n", "t",
    " ", "T", "e", "m", "p", "e", "r", "a", "t", "u", "r", "e">>
\* "INTAKE_PRESSURE"
Name_INTAKE_PRESSURE ==
    <<"I", "N", "T", "A", "K", "E", "_", "P", "R", "E", "S", "S", "U", "R",
    "E">>
\* "Intake Manifold Pressure"
Desc_INTAKE_PRESSURE ==
    <<"I", "n", "t", "a", "k", "e", " ", "M", "a", "n", "i", "f", "o", "l",
    "d", " ", "P", "r", "e", "s", "s", "u", "r", "e">>
\* "O2_B1S1"
Name_O2_B1S1 == <<"O", "2", "_", "B", "1", "S", "1">>
\* "O2: Bank 1 - Sensor 1 Voltage"
Desc_O2_B1S1 ==
    <<"O", "2", ":", " ", "B", "a", "n", "k", " ", "1", " ", "-", " ", "S",
    "e", "n", "s", "o", "r", " ", "1", " ", "V", "o", "l", "t", "a",
    "g", "e">>
\* "GET_DTC"
Name_GET_DTC == <<"G", "E", "T", "_", "D", "T", "C">>
\* "Get DTCs"
Desc_GET_DTC == <<"G", "e", "t", " ", "D", "T", "C", "s">>
\* "ELM_VERSION"
Name_ELM_VERSION == <<"E", "L", "M", "_", "V", "E", "R", "S", "I", "O", "N">>
\* "ELM327 version string"
Desc_ELM_VERSION ==
    <<"E", "L", "M", "3", "2", "7", " ", "v", "e", "r", "s", "i", "o", "n",
    " ", "s", "t", "r", "i", "n", "g">>
\* "SPEED"
Name_SPEED == <<"S", "P", "E", "E", "D">>
\* "Vehicle Speed"
Desc_SPEED ==
    <<"V", "e", "h", "i", "c", "l", "e", " ", "S", "p", "e", "e", "d">>

CommandUniverse ==
    {Attribute(Name_RPM, TRUE, Desc_RPM),
     Attribute(Name_FUEL_PRESSURE, TRUE, Desc_FUEL_PRESSURE),
     Attribute(Name_COOLANT_TEMP, TRUE, Desc_COOLANT_TEMP),
     Attribute(Name_INTAKE_PRESSURE, TRUE, Desc_INTAKE_PRESSURE),
     Attribute(Name_O2_B1S1, TRUE, Desc_O2_B1S1),
     Attribute(Name_GET_DTC, TRUE, Desc_GET_DTC),
     Attribute(Name_ELM_VERSION, TRUE, Desc_ELM_VERSION),
     Attribute(Name_SPEED, TRUE, Desc_SPEED)}

\* Attributes every library has that are no commands: a private one and a
\* method.
\* "__len__"
Name___len__ == <<"_", "_", "l", "e", "n", "_", "_">>
\* "has_name"
Name_has_name == <<"h", "a", "s", "_", "n", "a", "m", "e">>

OtherAttributes ==
    {Attribute(Name___len__, FALSE, <<>>),
     Attribute(Name_has_name, FALSE, <<>>)}

\* The installed libraries a run may meet.
Libraries == {OtherAttributes \cup cs : cs \in SUBSET CommandUniverse}

\* sorted(): the attributes of a set in increasing order of name.
RECURSIVE sorted(_)
sorted(attrs) ==
    IF attrs = {} THEN <<>>
    ELSE LET first == CHOOSE a \in attrs :
                         \A b \in attrs \ {a} :
                             StrLess(a.attr_name, b.attr_name)
         IN <<first>> \o sorted(attrs \ {first})

\* dir(obd.commands): every attribute, sorted by name.
dir_commands(lib) == sorted(lib)

\* "not attr_name.startswith('_')" and "hasattr(attr_value, 'name') and
\* hasattr(attr_value, 'desc')".
IsDiscovered(a) ==
    /\ ~(Len(a.attr_name) > 0 /\ a.attr_name[1] = "_")
    /\ a.is_command

\* Only the name is searched.
search_matches_name_only(term, a) ==
    IsSubstring(str_upper(term), str_upper(a.attr_name))

\* search_commands: "search_term.upper() in attr_name.upper() or
\* search_term.upper() in attr_value.desc.upper()".
search_matches(term, a) ==
    \/ IsSubstring(str_upper(term), str_upper(a.attr_name))
    \/ IsSubstring(str_upper(term), str_upper(a.desc))

\* The loop ends at the first command found.
search_commands_first_only(lib, term) ==
    LET Test(a) == IsDiscovered(a) /\ search_matches(term, a)
        all == SelectSeq(dir_commands(lib), Test)
    IN IF all = <<>> THEN <<>> ELSE <<all[1].attr_name>>

\* search_commands: the names printed, in the order of the loop over
\* dir(obd.commands).
search_commands(lib, term) ==
    LET Test(a) == IsDiscovered(a) /\ search_matches(term, a)
        all == SelectSeq(dir_commands(lib), Test)
    IN [i \in 1..Len(all) |-> all[i].attr_name]

\* list_all_commands: the categories, in the order of the if/elif chain
\* (and of the dict that is printed).
Categories ==
    <<"Engine", "Fuel", "Temperature", "Pressure", "Sensors", "Emission",
      "System", "Other">>

\* list_all_commands: the keywords of a category.
keywords(category) ==
    CASE category = "Engine" ->
            {<<"r", "p", "m">>,
             <<"l", "o", "a", "d">>,
             <<"t", "i", "m", "i", "n", "g">>}
      [] category = "Fuel" ->
            {<<"f", "u", "e", "l">>,
             <<"t", "r", "i", "m">>}
      [] category = "Temperature" ->
            {<<"t", "e", "m", "p">>,
             <<"c", "o", "o", "l", "a", "n", "t">>,
             <<"i", "n", "t", "a", "k", "e", "_", "t", "e", "m", "p">>}
      [] category = "Pressure" ->
            {<<"p", "r", "e", "s", "s", "u", "r", "e">>,
             <<"v", "a", "c", "u", "u", "m">>}
      [] category = "Sensors" ->
            {<<"o", "2">>,
             <<"s", "e", "n", "s", "o", "r">>,
             <<"m", "a", "f">>}
      [] category = "Emission" ->
            {<<"d", "t", "c">>,
             <<"m", "o", "n", "i", "t", "o", "r">>,
             <<"e", "m", "i", "s", "s", "i", "o", "n">>}
      [] category = "System" ->
            {<<"e", "l", "m">>,
             <<"s", "t", "a", "t", "u", "s">>,
             <<"v", "i", "n">>}
      [] OTHER -> {}

\* any(keyword in name_lower for keyword in [...])
any_keyword(category, name_lower) ==
    \E keyword \in keywords(category) : IsSubstring(keyword, name_lower)

\* The pressure branch is tested before the fuel branch.
category_of_pressure_first(name_lower) ==
    IF any_keyword("Engine", name_lower) THEN "Engine"
    ELSE IF any_keyword("Pressure", name_lower) THEN "Pressure"
    ELSE IF any_keyword("Fuel", name_lower) THEN "Fuel"
    ELSE IF any_keyword("Temperature", name_lower) THEN "Temperature"
    ELSE IF any_keyword("Sensors", name_lower) THEN "Sensors"
    ELSE IF any_keyword("Emission", name_lower) THEN "Emission"
    ELSE IF any_keyword("System", name_lower) THEN "System"
    ELSE "Other"

\* list_all_commands: the if/elif chain that picks the category of a name.
category_of(name_lower) ==
    IF any_keyword("Engine", name_lower) THEN "Engine"
    ELSE IF any_keyword("Fuel", name_lower) THEN "Fuel"
    ELSE IF any_keyword("Temperature", name_lower) THEN "Temperature"
    ELSE IF any_keyword("Pressure", name_lower) THEN "Pressure"
    ELSE IF any_keyword("Sensors", name_lower) THEN "Sensors"
    ELSE IF any_keyword("Emission", name_lower) THEN "Emission"
    ELSE IF any_keyword("System", name_lower) THEN "System"
    ELSE "Other"

\* No category holds a command.
NoCategories ==
    [category \in {Categories[i] : i \in 1..Len(Categories)} |-> <<>>]

\* list_all_commands: the loop over sorted_commands appends each command
\* to the list of its category.
RECURSIVE categorize(_, _)
categorize(sorted_commands, cats) ==
    IF sorted_commands = <<>> THEN cats
    ELSE LET cmd_name == Head(sorted_commands).attr_name
             category == category_of(str_lower(cmd_name))
         IN categorize(Tail(sorted_commands),
                       [cats EXCEPT ![category] = Append(@, cmd_name)])

\* list_all_commands: commands_dict, sorted, grouped by category.
list_all_commands(lib) ==
    categorize(sorted({a \in lib : IsDiscovered(a)}), NoCategories)

\* Nothing was looked up.
NoLookup == [name |-> <<>>, outcome |-> "None", desc |-> <<>>]

\* test_command_exists: hasattr(obd.commands, command_name), then the
\* desc of the attribute is printed; an attribute that is no command has
\* no desc and the print raises AttributeError.
test_command_exists(lib, command_name) ==
    IF \E a \in lib : a.attr_name = command_name
    THEN LET cmd == CHOOSE a \in lib : a.attr_name = command_name
         IN IF cmd.is_command
            THEN [name |-> command_name, outcome |-> "exists",
                  desc |-> cmd.desc]
            ELSE [name |-> command_name, outcome |-> "AttributeError",
                  desc |-> <<>>]
    ELSE [name |-> command_name, outcome |-> "does not exist",
          desc |-> <<>>]

\* "fuel"
Term_fuel == <<"f", "u", "e", "l">>
\* "engine"
Term_engine == <<"e", "n", "g", "i", "n", "e">>
\* "Pressure"
Term_Pressure == <<"P", "r", "e", "s", "s", "u", "r", "e">>
\* "zz"
Term_zz == <<"z", "z">>
\* "rpm"
Name_rpm == <<"r", "p", "m">>
\* "NOPE"
Name_NOPE == <<"N", "O", "P", "E">>
\* "SHORT_FUEL_TRIM_1"
Name_SHORT_FUEL_TRIM_1 ==
    <<"S", "H", "O", "R", "T", "_", "F", "U", "E", "L", "_", "T", "R", "I",
    "M", "_", "1">>
\* "LONG_FUEL_TRIM_1"
Name_LONG_FUEL_TRIM_1 ==
    <<"L", "O", "N", "G", "_", "F", "U", "E", "L", "_", "T", "R", "I", "M",
    "_", "1">>
\* "SHORT_FUEL_TRIM_2"
Name_SHORT_FUEL_TRIM_2 ==
    <<"S", "H", "O", "R", "T", "_", "F", "U", "E", "L", "_", "T", "R", "I",
    "M", "_", "2">>
\* "LONG_FUEL_TRIM_2"
Name_LONG_FUEL_TRIM_2 ==
    <<"L", "O", "N", "G", "_", "F", "U", "E", "L", "_", "T", "R", "I", "M",
    "_", "2">>
\* "FUEL_RAIL_PRESSURE"
Name_FUEL_RAIL_PRESSURE ==
    <<"F", "U", "E", "L", "_", "R", "A", "I", "L", "_", "P", "R", "E", "S",
    "S", "U", "R", "E">>

\* The substrings of a text that are not empty.
Substrings(s) ==
    {SubSeq(s, i, j) : i \in 1..Len(s), j \in 1..Len(s)} \ {<<>>}

\* Search terms typed at the prompt, after strip(): nothing, every
\* substring of two names, words of the descriptions in another case and
\* a word that is nowhere.
SearchTerms ==
    {<<>>, Term_fuel, Term_engine, Term_Pressure, Term_zz}
    \cup Substrings(Name_RPM) \cup Substrings(Name_GET_DTC)

\* Command names typed at the prompt, after strip().
CommandNames ==
    {<<>>, Name_RPM, Name_rpm, Name_FUEL_PRESSURE, Name_GET_DTC, Name_NOPE,
     Name_has_name}

\* main, choice 4: the names tested.
fuel_trim_commands ==
    <<Name_SHORT_FUEL_TRIM_1, Name_LONG_FUEL_TRIM_1, Name_SHORT_FUEL_TRIM_2,
      Name_LONG_FUEL_TRIM_2, Name_FUEL_PRESSURE, Name_FUEL_RAIL_PRESSURE>>

\* main: the branch taken for a menu choice.
CodesMenuBranch(c) ==
    CASE c = "1" -> "list_all_commands"
      [] c = "2" -> "search_commands"
      [] c = "3" -> "test_command_exists"
      [] c = "4" -> "fuel_trim_commands"
      [] c = "5" -> "done"
      [] OTHER -> "menu"

\* The characters of a raw PID string.
chars(pid) ==
    CASE pid = "0115" -> <<"0", "1", "1", "5">>
      [] pid = "0116" -> <<"0", "1", "1", "6">>
      [] pid = "0117" -> <<"0", "1", "1", "7">>
      [] pid = "0118" -> <<"0", "1", "1", "8">>
      [] pid = "0119" -> <<"0", "1", "1", "9">>
      [] pid = "0124" -> <<"0", "1", "2", "4">>
      [] pid = "0125" -> <<"0", "1", "2", "5">>
      [] pid = "0126" -> <<"0", "1", "2", "6">>
      [] pid = "0127" -> <<"0", "1", "2", "7">>

\* obd.OBDCommand(name, description, pid, ...): the command object the
\* script constructs; name is its identity.
OBDCommand(name, pid) == [identity |-> name, pid |-> pid]

\* The command objects the statement at the current position constructs:
\*   f"HONDA_O2_{pid}", f"AFR_{pid}", f"CUSTOM_{cmd_name}" (for a name the
\*   library lacks), "VIN_TEST", "PROTOCOL", "MODE09_PIDS".
AdHocAt ==
    CASE script = "honda" /\ pc = "honda_specific_pids"
            /\ idx \in 1..Len(honda_specific_pids) ->
            {OBDCommand(<<"H", "O", "N", "D", "A", "_", "O", "2", "_">>
                          \o chars(honda_specific_pids[idx]),
                        honda_specific_pids[idx])}
      [] script = "honda" /\ pc = "afr_pids" /\ idx \in 1..Len(afr_pids) ->
            {OBDCommand(<<"A", "F", "R", "_">> \o chars(afr_pids[idx]),
                        afr_pids[idx])}
      [] script = "honda" /\ pc = "live_o2_monitoring"
            /\ idx \in 1..Len(working_sensors)
            /\ working_sensors[idx] \notin avail ->
            {OBDCommand(<<"C", "U", "S", "T", "O", "M", "_">>
                          \o chars(working_sensors[idx]),
                        working_sensors[idx])}
      [] script = "vin" /\ pc = "vin_pids" /\ idx \in 1..Len(vin_pids) ->
            {OBDCommand(<<"V", "I", "N", "_", "T", "E", "S", "T">>,
                        vin_pids[idx])}
      [] script = "vin" /\ pc = "elm_protocol" ->
            {OBDCommand(<<"P", "R", "O", "T", "O", "C", "O", "L">>,
                        "ATDP")}
      [] script = "vin" /\ pc = "mode09_pids" ->
            {OBDCommand(<<"M", "O", "D", "E", "0", "9", "_", "P", "I", "D",
                          "S">>,
                        "0900")}
      [] OTHER -> {}

Scripts == {"v2", "honda", "vin", "elm", "codes"}

Init ==
    /\ script \in Scripts
    /\ pc = "main"
    /\ avail = {}
    /\ absent = {}
    /\ conn = "none"
    /\ sent = <<>>
    /\ idx = 0
    /\ reading = NoReading
    /\ found_temp = FALSE
    /\ catResults = <<>>
    /\ catOutcome = NotTried
    /\ working_sensors = <<>>
    /\ round = 0
    /\ stft = NotTried
    /\ ltft = NotTried
    /\ fuelMixture = "Unknown"
    /\ analysisError = "None"
    /\ diagnosis = NoDiagnosis
    /\ vin = NotTried
    /\ vinReport = NoVinReport
    /\ menus = 0
    /\ choice = NoInput
    /\ response = NoInput
    /\ interrupted = NoInterrupt
    /\ adhoc = {}
    /\ library \in (IF script = "codes" THEN Libraries ELSE {{}})
    /\ search_term = <<>>
    /\ results = <<>>
    /\ categories = NoCategories
    /\ lookup = NoLookup

(***************************************************************************)
(* po4220V2.py main()                                                      *)
(***************************************************************************)
\* connection = obd.OBD(); a status other than CAR_CONNECTED returns at once
\* (the connection object stays as it is), otherwise the try block starts.
V2Connect ==
    /\ script = "v2" /\ pc = "main"
    /\ conn' = "open"
    /\ \E car_connected \in BOOLEAN :
          pc' = IF car_connected THEN "read_o2_sensors" ELSE "done"
    /\ UNCHANGED <<script, interrupted, adhoc,
                   avail, absent, sent, idx, reading, v2Vars,
                   notV2>>

\* read_o2_sensors builds o2_commands (one hasattr lookup) and starts its
\* for-loop.
V2ReadO2SensorsEnter ==
    /\ script = "v2" /\ pc = "read_o2_sensors"
    /\ \E h \in BOOLEAN : Hasattr("O2_B2S1", h)
    /\ pc' = "o2_loop" /\ idx' = 1
    /\ UNCHANGED <<script, interrupted, adhoc,
                   conn, sent, reading, v2Vars, notV2>>

\* One iteration of the for-loop of read_o2_sensors.
V2ReadO2Sensor ==
    /\ script = "v2" /\ pc = "o2_loop"
    /\ idx <= Len(o2_commands(avail))
    /\ LET c == o2_commands(avail)[idx] IN
       /\ sent' = Query(sent, c.cmd)
       /\ \E r \in Responses(Voltages) :
             reading' = [cmd |-> c.cmd, st |-> r.st, val |-> r.val,
                         analysis |->
                            IF r.st = "Ok"
                            THEN classifyO2Sensor(c.description, r.val)
                            ELSE "None",
                                        detail |-> FailureDetail(r, TRUE)]
    /\ idx' = idx + 1
    /\ UNCHANGED <<script, interrupted, adhoc,
                   pc, avail, absent, conn, v2Vars, notV2>>

\* read_o2_sensors returns; main calls read_fuel_trim.
V2ReadO2SensorsReturn ==
    /\ script = "v2" /\ pc = "o2_loop"
    /\ idx > Len(o2_commands(avail))
    /\ pc' = "read_fuel_trim" /\ idx' = 0 /\ reading' = NoReading
    /\ UNCHANGED <<script, interrupted, adhoc,
                   avail, absent, conn, sent, v2Vars, notV2>>

\* read_fuel_trim builds fuel_commands (one hasattr lookup) and starts its
\* for-loop.
V2ReadFuelTrimEnter ==
    /\ script = "v2" /\ pc = "read_fuel_trim"
    /\ \E h \in BOOLEAN : Hasattr("SHORT_FUEL_TRIM_2", h)
    /\ pc' = "trim_loop" /\ idx' = 1
    /\ UNCHANGED <<script, interrupted, adhoc,
                   conn, sent, reading, v2Vars, notV2>>

\* One iteration of the for-loop of read_fuel_trim.
V2ReadFuelTrim ==
    /\ script = "v2" /\ pc = "trim_loop"
    /\ idx <= Len(fuel_commands(avail))
    /\ LET c == fuel_commands(avail)[idx] IN
       /\ sent' = Query(sent, c)
       /\ \E r \in Responses(Trims) :
             reading' = [cmd |-> c, st |-> r.st, val |-> r.val,
                         analysis |->
                            IF r.st = "Ok" THEN classifyTrimValue(r.val)
                            ELSE "None",
                                        detail |-> FailureDetail(r, TRUE)]
    /\ idx' = idx + 1
    /\ UNCHANGED <<script, interrupted, adhoc,
                   pc, avail, absent, conn, v2Vars, notV2>>

\* read_fuel_trim returns; main calls read_catalyst_temp, whose loop starts.
V2ReadFuelTrimReturn ==
    /\ script = "v2" /\ pc = "trim_loop"
    /\ idx > Len(fuel_commands(avail))
    /\ pc' = "read_catalyst_temp" /\ idx' = 1 /\ reading' = NoReading
    /\ UNCHANGED <<script, interrupted, adhoc,
                   avail, absent, conn, sent, v2Vars, notV2>>

\* One iteration of the for-loop of read_catalyst_temp: a name the library
\* lacks is skipped without a query; otherwise the command is queried.
V2ReadCatalystTemp ==
    /\ script = "v2" /\ pc = "read_catalyst_temp"
    /\ idx <= Len(temp_commands)
    /\ LET cmd_name == temp_commands[idx] IN
       \E h \in BOOLEAN :
          /\ Hasattr(cmd_name, h)
          /\ IF ~h
             THEN /\ catResults' = Append(catResults, Unsupported)
                  /\ idx' = idx + 1
                  /\ UNCHANGED <<sent, reading, found_temp, catOutcome>>
             ELSE /\ sent' = Query(sent, cmd_name)
                  /\ \E r \in Responses(Temperatures),
                        has_celsius \in BOOLEAN :
                       /\ catResults' = Append(catResults, r)
                       /\ IF r.st = "Ok"
                          THEN /\ found_temp' = TRUE
                               /\ catOutcome' = r
                               /\ reading' =
                                    [cmd |-> cmd_name, st |-> r.st,
                                     val |-> r.val,
                                     analysis |->
                                        IF has_celsius
                                        THEN classifyCatalystTemp(r.val)
                                        ELSE "None",
                                        detail |-> FailureDetail(r, TRUE)]
                          ELSE /\ UNCHANGED <<found_temp, catOutcome>>
                               /\ reading' =
                                    IF r.st = "TransportError"
                                    THEN [cmd |-> cmd_name, st |-> r.st,
                                          val |-> r.val,
                                          analysis |-> "None",
                                          detail |-> FailureDetail(r, TRUE)]
                                    ELSE reading
                       /\ idx' = IF CatalystProbeBreaks(r)
                                 THEN Len(temp_commands) + 1
                                 ELSE idx + 1
    /\ UNCHANGED <<script, interrupted, adhoc,
                   pc, conn, notV2>>

\* After the loop: "if not found_temp" prints that the data is not
\* available with this scanner; read_catalyst_temp returns and main reaches
\* its finally block.
V2ReadCatalystTempReturn ==
    /\ script = "v2" /\ pc = "read_catalyst_temp"
    /\ idx > Len(temp_commands)
    /\ catOutcome' = IF found_temp THEN catOutcome ELSE Unsupported
    /\ pc' = "finally"
    /\ UNCHANGED <<script, interrupted, adhoc,
                   avail, absent, conn, sent, idx, reading,
                   found_temp, catResults, notV2>>

\* finally: connection.close()
V2Finally ==
    /\ script = "v2" /\ pc = "finally"
    /\ conn' = "closed"
    /\ pc' = "done"
    /\ UNCHANGED <<script, interrupted, adhoc,
                   avail, absent, sent, idx, reading, v2Vars,
                   notV2>>

(***************************************************************************)
(* po420_honda_spec.py main()                                              *)
(***************************************************************************)
\* connection = obd.OBD(); a status other than CAR_CONNECTED returns at once,
\* otherwise the try block starts with test_all_o2_sensor_pids.
HondaConnect ==
    /\ script = "honda" /\ pc = "main"
    /\ conn' = "open"
    /\ \E car_connected \in BOOLEAN :
          IF car_connected
          THEN pc' = "standard_pids" /\ idx' = 1
          ELSE pc' = "done" /\ idx' = idx
    /\ UNCHANGED <<script, interrupted, adhoc,
                   avail, absent, sent, reading, notHonda,
                   hondaVars>>

\* test_all_o2_sensor_pids: one iteration of the loop over standard_pids.
HondaTestStandardPid ==
    /\ script = "honda" /\ pc = "standard_pids"
    /\ idx <= Len(standard_pids)
    /\ LET cmd_name == standard_pids[idx] IN
       \E h \in BOOLEAN :
          /\ Hasattr(cmd_name, h)
          /\ IF ~h
             THEN /\ reading' = [cmd |-> cmd_name, st |-> "Unsupported",
                                 val |-> 0, analysis |-> "None",
                                        detail |-> "None"]
                  /\ UNCHANGED <<sent, working_sensors>>
             ELSE /\ sent' = Query(sent, cmd_name)
                  /\ \E r \in Responses(ProbeValues) :
                       /\ reading' = [cmd |-> cmd_name, st |-> r.st,
                                      val |-> r.val, analysis |-> "None",
                                        detail |-> FailureDetail(r, TRUE)]
                       /\ working_sensors' =
                             IF r.st = "Ok"
                             THEN Append(working_sensors, cmd_name)
                             ELSE working_sensors
    /\ idx' = idx + 1
    /\ UNCHANGED <<script, interrupted, adhoc,
                   pc, conn, notHonda, round, stft, ltft,
                   fuelMixture, analysisError, diagnosis>>

\* test_all_o2_sensor_pids: the first loop is exhausted, the second starts.
HondaTestStandardPidsEnd ==
    /\ script = "honda" /\ pc = "standard_pids"
    /\ idx > Len(standard_pids)
    /\ pc' = "honda_specific_pids" /\ idx' = 1
    /\ UNCHANGED <<script, interrupted, adhoc,
                   avail, absent, conn, sent, reading, notHonda, hondaVars>>

\* test_all_o2_sensor_pids: one iteration of the loop over
\* honda_specific_pids.
HondaTestHondaPid ==
    /\ script = "honda" /\ pc = "honda_specific_pids"
    /\ adhoc' = adhoc \cup AdHocAt
    /\ idx <= Len(honda_specific_pids)
    /\ LET pid == honda_specific_pids[idx] IN
       /\ sent' = Query(sent, pid)
       /\ \E r \in Responses(ProbeValues) :
            /\ reading' = [cmd |-> pid, st |-> r.st, val |-> r.val,
                           analysis |-> "None",
                                        detail |-> FailureDetail(r, TRUE)]
            /\ working_sensors' =
                  IF r.st = "Ok" THEN Append(working_sensors, pid)
                  ELSE working_sensors
    /\ idx' = idx + 1
    /\ UNCHANGED <<script, interrupted,
                   pc, avail, absent, conn, notHonda, round, stft,
                   ltft, fuelMixture, analysisError, diagnosis>>

\* test_all_o2_sensor_pids returns working_sensors; main calls
\* test_wideband_o2_sensors.
HondaTestAllReturn ==
    /\ script = "honda" /\ pc = "honda_specific_pids"
    /\ idx > Len(honda_specific_pids)
    /\ pc' = "afr_pids" /\ idx' = 1 /\ reading' = NoReading
    /\ UNCHANGED <<script, interrupted, adhoc,
                   avail, absent, conn, sent, notHonda, hondaVars>>

\* test_wideband_o2_sensors: one iteration of the loop over afr_pids.
HondaTestWideband ==
    /\ script = "honda" /\ pc = "afr_pids"
    /\ adhoc' = adhoc \cup AdHocAt
    /\ idx <= Len(afr_pids)
    /\ LET pid == afr_pids[idx] IN
       /\ sent' = Query(sent, pid)
       /\ \E r \in Responses(ProbeValues) :
            reading' = [cmd |-> pid, st |-> r.st, val |-> r.val,
                        analysis |-> "None",
                                        detail |-> FailureDetail(r, TRUE)]
    /\ idx' = idx + 1
    /\ UNCHANGED <<script, interrupted,
                   pc, avail, absent, conn, notHonda, hondaVars>>

\* test_wideband_o2_sensors returns.  With working sensors main asks whether
\* to monitor and, on "y", enters live_o2_monitoring; otherwise it goes on
\* to analyze_p0420_without_o2, which uses neither working_sensors nor any
\* library lookup: both records are dropped there and the transmission log
\* restarts, so that the analysis is explored once and not once per probing
\* history.
HondaTestWidebandReturn ==
    /\ script = "honda" /\ pc = "afr_pids"
    /\ idx > Len(afr_pids)
    /\ reading' = NoReading
    /\ \E do_live \in Answers :
          IF working_sensors # <<>> /\ Lower(do_live) = "y"
          THEN /\ pc' = "live_o2_monitoring" /\ idx' = 1 /\ round' = 1
               /\ UNCHANGED <<avail, absent, working_sensors, sent, adhoc>>
          ELSE /\ pc' = "analyze_stft" /\ idx' = 0
               /\ working_sensors' = <<>> /\ avail' = {} /\ absent' = {}
               /\ sent' = <<>> /\ adhoc' = {}
               /\ UNCHANGED round
    /\ UNCHANGED <<script, interrupted,
                   conn, notHonda, stft, ltft, fuelMixture,
                   analysisError, diagnosis>>

\* live_o2_monitoring: one iteration of the inner for-loop.  A name found
\* working by the first loop is a library command; a raw PID is wrapped in
\* a custom command.  Either way the command is queried; an exception is
\* printed as "Error".
HondaLiveSample ==
    /\ script = "honda" /\ pc = "live_o2_monitoring"
    /\ adhoc' = adhoc \cup AdHocAt
    /\ idx <= Len(working_sensors)
    /\ LET cmd_name == working_sensors[idx] IN
       /\ sent' = Query(sent, cmd_name)
       /\ \E r \in Responses(ProbeValues) :
            reading' = [cmd |-> cmd_name, st |-> r.st, val |-> r.val,
                        analysis |-> "None",
                                        detail |-> FailureDetail(r, FALSE)]
    /\ idx' = idx + 1
    /\ UNCHANGED <<script, interrupted,
                   pc, avail, absent, conn, notHonda, hondaVars>>

\* live_o2_monitoring: the for-loop is exhausted; time.sleep(2), then the
\* while condition either starts another pass or (30 s over) returns to
\* main, which calls analyze_p0420_without_o2.
HondaLiveSleep ==
    /\ script = "honda" /\ pc = "live_o2_monitoring"
    /\ idx > Len(working_sensors)
    /\ reading' = NoReading
    /\ \E again \in BOOLEAN :
          IF again /\ round < MaxRounds
          THEN /\ round' = round + 1 /\ idx' = 1
               /\ UNCHANGED <<pc, avail, absent, working_sensors, sent,
                            adhoc>>
          ELSE /\ pc' = "analyze_stft" /\ idx' = 0 /\ round' = 0
               /\ working_sensors' = <<>> /\ avail' = {} /\ absent' = {}
               /\ sent' = <<>> /\ adhoc' = {}
    /\ UNCHANGED <<script, interrupted,
                   conn, notHonda, stft, ltft, fuelMixture,
                   analysisError, diagnosis>>

\* analyze_p0420_without_o2: stft = connection.query(SHORT_FUEL_TRIM_1).  An
\* exception leaves the try block: the except prints it and the closing
\* diagnosis follows.
HondaAnalyzeStft ==
    /\ script = "honda" /\ pc = "analyze_stft"
    /\ sent' = Query(sent, "SHORT_FUEL_TRIM_1")
    /\ \E r \in Responses(Trims) :
          IF r.st = "TransportError"
          THEN /\ analysisError' = "TransportError"
               /\ diagnosis' = PrintedDiagnosis
               /\ pc' = "finally"
               /\ UNCHANGED stft
          ELSE /\ stft' = r
               /\ pc' = "analyze_ltft"
               /\ UNCHANGED <<analysisError, diagnosis>>
    /\ UNCHANGED <<script, interrupted, adhoc,
                   avail, absent, conn, idx, reading, notHonda,
                   working_sensors, round, ltft, fuelMixture>>

\* analyze_p0420_without_o2: ltft = connection.query(LONG_FUEL_TRIM_1), the
\* fuel mixture verdict and the closing diagnosis.
HondaAnalyzeLtft ==
    /\ script = "honda" /\ pc = "analyze_ltft"
    /\ sent' = Query(sent, "LONG_FUEL_TRIM_1")
    /\ \E r \in Responses(Trims) :
          IF r.st = "TransportError"
          THEN /\ analysisError' = "TransportError"
               /\ UNCHANGED <<ltft, fuelMixture>>
          ELSE /\ ltft' = r
               /\ LET verdict == classifyFuelTrim(stft, r) IN
                  IF verdict = "TypeError"
                  THEN analysisError' = "TypeError" /\ UNCHANGED fuelMixture
                  ELSE fuelMixture' = verdict /\ UNCHANGED analysisError
    /\ diagnosis' = PrintedDiagnosis
    /\ pc' = "finally"
    /\ UNCHANGED <<script, interrupted, adhoc,
                   avail, absent, conn, idx, reading, notHonda,
                   working_sensors, round, stft>>

\* finally: connection.close()
HondaFinally ==
    /\ script = "honda" /\ pc = "finally"
    /\ conn' = "closed"
    /\ pc' = "done"
    /\ UNCHANGED <<script, interrupted, adhoc,
                   avail, absent, sent, idx, reading, notHonda, hondaVars>>

(***************************************************************************)
(* test_vin.py main()                                                      *)
(***************************************************************************)
\* connection = obd.OBD() inside try: an exception prints the connection
\* error and returns; a status other than CAR_CONNECTED returns as well;
\* otherwise the diagnostic tests start with test_vin_command.
VinConnect ==
    /\ script = "vin" /\ pc = "main"
    /\ \E outcome \in {"car_connected", "not_connected", "raise"} :
          /\ conn' = IF outcome = "raise" THEN "none" ELSE "open"
          /\ pc' = IF outcome = "car_connected" THEN "test_vin_command"
                   ELSE "done"
    /\ UNCHANGED <<script, interrupted, adhoc,
                   avail, absent, sent, idx, reading, vinVars,
                   notVin>>

\* test_vin_command: the library's VIN command, when it has one, is queried
\* once; a value is returned, anything else (no command, no data, an
\* exception) returns None.  main then decides on the fallback steps.
VinTestVinCommand ==
    /\ script = "vin" /\ pc = "test_vin_command"
    /\ \E h \in BOOLEAN :
          /\ Hasattr("VIN", h)
          /\ IF ~h
             THEN /\ vin' = NoData
                  /\ UNCHANGED <<sent, reading>>
             ELSE /\ sent' = Query(sent, "VIN")
                  /\ \E r \in ResponsesOf(Texts, "") :
                       /\ reading' = [cmd |-> "VIN", st |-> r.st,
                                      val |-> r.val, analysis |-> "None",
                                        detail |-> FailureDetail(r, TRUE)]
                       /\ vin' = IF Truthy(r, "") THEN r ELSE NoData
    /\ pc' = MainAfterVinCommand(vin')
    /\ idx' = 1
    /\ UNCHANGED <<script, interrupted, adhoc,
                   conn, vinReport, notVin>>

\* test_raw_vin_commands: one iteration of the loop over vin_pids; the
\* response is printed and the loop goes on whatever it was.
VinTestRawVinCommand ==
    /\ script = "vin" /\ pc = "vin_pids"
    /\ adhoc' = adhoc \cup AdHocAt
    /\ idx <= Len(vin_pids)
    /\ LET pid == vin_pids[idx] IN
       /\ sent' = Query(sent, pid)
       /\ \E r \in ResponsesOf(Texts, "") :
            /\ reading' = [cmd |-> pid, st |-> r.st, val |-> r.val,
                           analysis |-> "None",
                                        detail |-> FailureDetail(r, TRUE)]
            /\ vinReport' =
                  IF pid = "0902"
                  THEN [vinReport EXCEPT
                          !.raw0902 = IF Truthy(r, "") THEN "Ok"
                                      ELSE IF r.st = "Ok" THEN "NoData"
                                      ELSE r.st]
                  ELSE vinReport
    /\ idx' = idx + 1
    /\ UNCHANGED <<script, interrupted,
                   pc, avail, absent, conn, vin, notVin>>

\* test_raw_vin_commands returns; main calls test_elm327_info.
VinTestRawVinCommandsReturn ==
    /\ script = "vin" /\ pc = "vin_pids"
    /\ idx > Len(vin_pids)
    /\ pc' = "elm_protocol" /\ idx' = 0 /\ reading' = NoReading
    /\ UNCHANGED <<script, interrupted, adhoc,
                   avail, absent, conn, sent, vinVars, notVin>>

\* test_elm327_info: the ATDP protocol query inside a bare except.
VinTestElmProtocol ==
    /\ script = "vin" /\ pc = "elm_protocol"
    /\ adhoc' = adhoc \cup AdHocAt
    /\ sent' = Query(sent, "ATDP")
    /\ \E r \in ResponsesOf(Texts, "") :
          reading' = [cmd |-> "ATDP", st |-> r.st, val |-> r.val,
                      analysis |-> "None",
                                        detail |-> FailureDetail(r, FALSE)]
    /\ pc' = "info_commands" /\ idx' = 1
    /\ UNCHANGED <<script, interrupted,
                   avail, absent, conn, vinVars, notVin>>

\* test_elm327_info: one iteration of the loop over info_commands.
VinTestElmInfo ==
    /\ script = "vin" /\ pc = "info_commands"
    /\ idx <= Len(info_commands)
    /\ LET cmd == info_commands[idx] IN
       /\ sent' = Query(sent, cmd)
       /\ \E r \in ResponsesOf(Texts, "") :
            reading' = [cmd |-> cmd, st |-> r.st, val |-> r.val,
                        analysis |-> "None",
                                        detail |-> FailureDetail(r, TRUE)]
    /\ idx' = idx + 1
    /\ UNCHANGED <<script, interrupted, adhoc,
                   pc, avail, absent, conn, vinVars, notVin>>

\* test_elm327_info returns; main calls test_supported_pids.
VinTestElmInfoReturn ==
    /\ script = "vin" /\ pc = "info_commands"
    /\ idx > Len(info_commands)
    /\ pc' = "supported_pids" /\ idx' = 0 /\ reading' = NoReading
    /\ UNCHANGED <<script, interrupted, adhoc,
                   avail, absent, conn, sent, vinVars, notVin>>

\* test_supported_pids: the Mode 01 supported-PIDs query.  An exception
\* leaves the try block: the error is printed, the function returns and
\* main prints the alternative methods.
VinTestSupportedPidsMode01 ==
    /\ script = "vin" /\ pc = "supported_pids"
    /\ sent' = Query(sent, "PIDS_A")
    /\ \E r \in ResponsesOf(PidSets, {}) :
          /\ reading' = [cmd |-> "PIDS_A", st |-> r.st, val |-> r.val,
                         analysis |-> "None",
                                        detail |-> FailureDetail(r, TRUE)]
          /\ IF r.st = "TransportError"
             THEN /\ vinReport' = [vinReport EXCEPT !.pid02 = "Error",
                                                    !.alternatives = TRUE]
                  /\ pc' = "finally"
             ELSE /\ pc' = "mode09_pids"
                  /\ UNCHANGED vinReport
    /\ UNCHANGED <<script, interrupted, adhoc,
                   avail, absent, conn, idx, vin, notVin>>

\* test_supported_pids: the Mode 09 supported-PIDs query ("0900") and the
\* verdict on PID 02; the function returns and main prints the alternative
\* methods.
VinTestSupportedPidsMode09 ==
    /\ script = "vin" /\ pc = "mode09_pids"
    /\ adhoc' = adhoc \cup AdHocAt
    /\ sent' = Query(sent, "0900")
    /\ \E r \in ResponsesOf(PidSets, {}) :
          /\ reading' = [cmd |-> "0900", st |-> r.st, val |-> r.val,
                         analysis |-> "None",
                                        detail |-> FailureDetail(r, TRUE)]
          /\ vinReport' =
                [vinReport EXCEPT
                   !.pid02 = IF r.st = "TransportError" THEN "Error"
                             ELSE IF Truthy(r, {})
                                  THEN IF 2 \in r.val THEN "Supported"
                                       ELSE "NotSupported"
                             ELSE "NoMode09",
                   !.alternatives = TRUE]
    /\ pc' = "finally"
    /\ UNCHANGED <<script, interrupted,
                   avail, absent, conn, idx, vin, notVin>>

\* finally: connection.close()
VinFinally ==
    /\ script = "vin" /\ pc = "finally"
    /\ conn' = "closed"
    /\ pc' = "done"
    /\ UNCHANGED <<script, interrupted, adhoc,
                   avail, absent, sent, idx, reading, vinVars,
                   notVin>>

(***************************************************************************)
(* elm327_tsx_reader.py main()                                             *)
(***************************************************************************)
\* connect_elm327: obd.OBD() inside try.  An exception, or a status other
\* than CAR_CONNECTED, returns None and main exits; otherwise the menu loop
\* starts.
ElmConnect ==
    /\ script = "elm" /\ pc = "main"
    /\ \E outcome \in {"car_connected", "not_connected", "raise"} :
          /\ conn' = IF outcome = "raise" THEN "none" ELSE "open"
          /\ pc' = IF outcome = "car_connected" THEN "menu" ELSE "done"
    /\ UNCHANGED <<script, interrupted, adhoc,
                   avail, absent, sent, idx, reading, elmVars,
                   notElm>>

\* main: one pass of the menu: the choice is read and dispatched.  After
\* MaxMenu choices the user exits.
ElmMenu ==
    /\ script = "elm" /\ pc = "menu"
    /\ \E c \in (IF menus < MaxMenu THEN Choices ELSE {"5"}) :
          /\ choice' = c
          /\ pc' = MenuBranch(c)
    /\ menus' = IF menus < MaxMenu THEN menus + 1 ELSE menus
    /\ idx' = 1
    /\ reading' = NoReading
    /\ UNCHANGED <<script, interrupted, adhoc,
                   avail, absent, conn, sent, response, notElm>>

\* read_dtcs: the stored codes query.  An exception ends the function in
\* the outer except; otherwise the pending codes are tried.
ElmReadDtcs ==
    /\ script = "elm" /\ pc = "read_dtcs"
    /\ sent' = Query(sent, "GET_DTC")
    /\ \E r \in ResponsesOf(DtcLists, <<>>) :
          /\ reading' = [cmd |-> "GET_DTC", st |-> r.st, val |-> r.val,
                         analysis |-> "None",
                                        detail |-> FailureDetail(r, TRUE)]
          /\ pc' = IF r.st = "TransportError" THEN "menu" ELSE "pending_dtcs"
    /\ UNCHANGED <<script, interrupted, adhoc,
                   avail, absent, conn, idx, elmVars, notElm>>

\* read_dtcs: the pending codes: GET_PENDING_DTC when the library has it,
\* else PENDING_DTC when it has that, else no query at all.
ElmReadPendingDtcs ==
    /\ script = "elm" /\ pc = "pending_dtcs"
    /\ \E h1 \in BOOLEAN, h2 \in BOOLEAN :
          /\ "GET_PENDING_DTC" \in avail => h1
          /\ "GET_PENDING_DTC" \in absent => ~h1
          /\ "PENDING_DTC" \in avail => h2
          /\ "PENDING_DTC" \in absent => ~h2
          /\ h1 => ~h2
          /\ avail' = avail \cup (IF h1 THEN {"GET_PENDING_DTC"} ELSE {})
                            \cup (IF h2 THEN {"PENDING_DTC"} ELSE {})
          /\ absent' = absent
                          \cup (IF h1 THEN {} ELSE {"GET_PENDING_DTC"})
                          \cup (IF h1 \/ h2 THEN {} ELSE {"PENDING_DTC"})
          /\ IF h1 \/ h2
             THEN LET cmd == IF h1 THEN "GET_PENDING_DTC" ELSE "PENDING_DTC"
                  IN /\ sent' = Query(sent, cmd)
                     /\ \E r \in ResponsesOf(DtcLists, <<>>) :
                          reading' = [cmd |-> cmd, st |-> r.st,
                                      val |-> r.val, analysis |-> "None",
                                        detail |-> FailureDetail(r, TRUE)]
             ELSE UNCHANGED <<sent, reading>>
    /\ pc' = "menu"
    /\ UNCHANGED <<script, interrupted, adhoc,
                   conn, idx, elmVars, notElm>>

\* read_live_data: one iteration of the loop over commands.
ElmReadLiveData ==
    /\ script = "elm" /\ pc = "read_live_data"
    /\ idx <= Len(commands)
    /\ LET cmd == commands[idx] IN
       /\ sent' = Query(sent, cmd)
       /\ \E r \in Responses(ProbeValues) :
            reading' = [cmd |-> cmd, st |-> r.st, val |-> r.val,
                        analysis |-> "None",
                                        detail |-> FailureDetail(r, TRUE)]
    /\ idx' = idx + 1
    /\ UNCHANGED <<script, interrupted, adhoc,
                   pc, avail, absent, conn, elmVars, notElm>>

\* read_live_data returns to the menu.
ElmReadLiveDataReturn ==
    /\ script = "elm" /\ pc = "read_live_data"
    /\ idx > Len(commands)
    /\ pc' = "menu"
    /\ UNCHANGED <<script, interrupted, adhoc,
                   avail, absent, conn, sent, idx, reading, elmVars,
                   notElm>>

\* clear_dtcs: the confirmation prompt; on "y" the CLEAR_DTC query, whose
\* exception is printed.
ElmClearDtcs ==
    /\ script = "elm" /\ pc = "clear_dtcs"
    /\ \E answer \in Answers :
          /\ response' = answer
          /\ IF ClearConfirmed(answer)
             THEN
               /\ sent' = Query(sent, "CLEAR_DTC")
               /\ \E r \in Responses(ProbeValues) :
                    reading' = [cmd |-> "CLEAR_DTC", st |-> r.st,
                                val |-> r.val, analysis |-> "None",
                                        detail |-> FailureDetail(r, TRUE)]
             ELSE UNCHANGED <<sent, reading>>
    /\ pc' = "menu"
    /\ UNCHANGED <<script, interrupted, adhoc,
                   avail, absent, conn, idx, menus, choice, notElm>>

\* read_vehicle_info: one iteration of the loop over its commands.
ElmReadVehicleInfo ==
    /\ script = "elm" /\ pc = "read_vehicle_info"
    /\ idx <= Len(vehicle_info_commands)
    /\ LET cmd == vehicle_info_commands[idx] IN
       /\ sent' = Query(sent, cmd)
       /\ \E r \in ResponsesOf(Texts, "") :
            reading' = [cmd |-> cmd, st |-> r.st, val |-> r.val,
                        analysis |-> "None",
                                        detail |-> FailureDetail(r, TRUE)]
    /\ idx' = idx + 1
    /\ UNCHANGED <<script, interrupted, adhoc,
                   pc, avail, absent, conn, elmVars, notElm>>

\* read_vehicle_info returns to the menu.
ElmReadVehicleInfoReturn ==
    /\ script = "elm" /\ pc = "read_vehicle_info"
    /\ idx > Len(vehicle_info_commands)
    /\ pc' = "menu"
    /\ UNCHANGED <<script, interrupted, adhoc,
                   avail, absent, conn, sent, idx, reading, elmVars,
                   notElm>>

\* finally: connection.close()
ElmFinally ==
    /\ script = "elm" /\ pc = "finally"
    /\ conn' = "closed"
    /\ pc' = "done"
    /\ UNCHANGED <<script, interrupted, adhoc,
                   avail, absent, sent, idx, reading, elmVars,
                   notElm>>

(***************************************************************************)
(* print_codes.py main()                                                   *)
(***************************************************************************)
\* main: one pass of the menu: the choice is read and dispatched; what the
\* previous pass printed is no longer looked at.  After MaxMenu choices the
\* user exits.
CodesMenu ==
    /\ script = "codes" /\ pc \in {"main", "menu"}
    /\ \E c \in (IF menus < MaxMenu THEN Choices ELSE {"5"}) :
          /\ choice' = c
          /\ pc' = CodesMenuBranch(c)
    /\ menus' = IF menus < MaxMenu THEN menus + 1 ELSE menus
    /\ idx' = 1
    /\ search_term' = <<>> /\ results' = <<>>
    /\ categories' = NoCategories /\ lookup' = NoLookup
    /\ UNCHANGED <<script, interrupted, adhoc,
                   avail, absent, conn, sent, reading, library, notCodes>>

\* Choice 1: list_all_commands().
CodesListAllCommands ==
    /\ script = "codes" /\ pc = "list_all_commands"
    /\ categories' = list_all_commands(library)
    /\ pc' = "menu"
    /\ UNCHANGED <<script, interrupted, adhoc,
                   avail, absent, conn, sent, idx, reading, library,
                   search_term, results, lookup, menus, choice, notCodes>>

\* Choice 2: the search term is read; search_commands runs unless it is
\* empty.
CodesSearchCommands ==
    /\ script = "codes" /\ pc = "search_commands"
    /\ \E term \in SearchTerms :
          IF term # <<>>
          THEN /\ search_term' = term
               /\ results' = search_commands(library, term)
          ELSE UNCHANGED <<search_term, results>>
    /\ pc' = "menu"
    /\ UNCHANGED <<script, interrupted, adhoc,
                   avail, absent, conn, sent, idx, reading, library,
                   categories, lookup, menus, choice, notCodes>>

\* Choice 3: the command name is read; test_command_exists runs unless it
\* is empty.  Nothing catches the AttributeError of an attribute that is no
\* command: it ends the process.
CodesTestCommandExists ==
    /\ script = "codes" /\ pc = "test_command_exists"
    /\ \E cmd_name \in CommandNames :
          IF cmd_name # <<>>
          THEN /\ lookup' = test_command_exists(library, cmd_name)
               /\ pc' = IF lookup'.outcome = "AttributeError" THEN "raised"
                        ELSE "menu"
          ELSE pc' = "menu" /\ UNCHANGED lookup
    /\ UNCHANGED <<script, interrupted, adhoc,
                   avail, absent, conn, sent, idx, reading, library,
                   search_term, results, categories, menus, choice,
                   notCodes>>

\* Choice 4: one iteration of the loop over the fuel trim related names.
CodesFuelTrimCommand ==
    /\ script = "codes" /\ pc = "fuel_trim_commands"
    /\ idx <= Len(fuel_trim_commands)
    /\ lookup' = test_command_exists(library, fuel_trim_commands[idx])
    /\ idx' = idx + 1
    /\ UNCHANGED <<script, interrupted, adhoc,
                   pc, avail, absent, conn, sent, reading, library,
                   search_term, results, categories, menus, choice,
                   notCodes>>

\* Choice 4: the loop is exhausted; back to the menu.
CodesFuelTrimCommandsReturn ==
    /\ script = "codes" /\ pc = "fuel_trim_commands"
    /\ idx > Len(fuel_trim_commands)
    /\ pc' = "menu"
    /\ UNCHANGED <<script, interrupted, adhoc,
                   avail, absent, conn, sent, idx, reading, codesVars,
                   menus, choice, notCodes>>

(***************************************************************************)
(* KeyboardInterrupt (Ctrl+C).  It is raised asynchronously: while a       *)
(* prompt or a sleep waits, between two statements, or inside              *)
(* connection.query after the command was written to the adapter and       *)
(* before its response was read.  "except Exception" does not catch it.    *)
(***************************************************************************)
\* The command the script queries next at its position, "" when the next
\* statement is not a query or the command depends on a lookup not made yet.
NextQuery ==
    LET At(list) == IF idx \in 1..Len(list) THEN list[idx] ELSE ""
        Known(name) == IF name \in avail THEN name ELSE ""
    IN CASE script = "v2" /\ pc = "o2_loop" ->
               IF idx \in 1..Len(o2_commands(avail))
               THEN o2_commands(avail)[idx].cmd ELSE ""
         [] script = "v2" /\ pc = "trim_loop" -> At(fuel_commands(avail))
         [] script = "v2" /\ pc = "read_catalyst_temp" ->
               Known(At(temp_commands))
         [] script = "honda" /\ pc = "standard_pids" ->
               Known(At(standard_pids))
         [] script = "honda" /\ pc = "honda_specific_pids" ->
               At(honda_specific_pids)
         [] script = "honda" /\ pc = "afr_pids" -> At(afr_pids)
         [] script = "honda" /\ pc = "live_o2_monitoring" ->
               At(working_sensors)
         [] script = "honda" /\ pc = "analyze_stft" -> "SHORT_FUEL_TRIM_1"
         [] script = "honda" /\ pc = "analyze_ltft" -> "LONG_FUEL_TRIM_1"
         [] script = "vin" /\ pc = "test_vin_command" -> Known("VIN")
         [] script = "vin" /\ pc = "vin_pids" -> At(vin_pids)
         [] script = "vin" /\ pc = "info_commands" -> At(info_commands)
         [] script = "vin" /\ pc = "supported_pids" -> "PIDS_A"
         [] script = "vin" /\ pc = "mode09_pids" -> "0900"
         [] script = "elm" /\ pc = "read_dtcs" -> "GET_DTC"
         [] script = "elm" /\ pc = "read_live_data" -> At(commands)
         [] script = "elm" /\ pc = "read_vehicle_info" ->
               At(vehicle_info_commands)
         [] OTHER -> ""

\* KeyboardInterrupt is raised at the current position, inside the next
\* query (mid_query: the command was transmitted, its response is never
\* read) or outside of one.
RaiseKeyboardInterrupt(mid_query) ==
    /\ mid_query => NextQuery # ""
    /\ interrupted' = [where |-> pc,
                       inflight |-> IF mid_query THEN NextQuery ELSE ""]
    /\ sent' = IF mid_query THEN Query(sent, NextQuery) ELSE sent
    /\ adhoc' = IF mid_query THEN adhoc \cup AdHocAt ELSE adhoc

\* Positions inside the try block of a main().
InTry == pc \notin {"main", "finally", "done", "interrupted"}

\* po4220V2 main: nothing catches KeyboardInterrupt; the finally block
\* closes the connection and the exception ends the process.
V2Interrupt ==
    /\ script = "v2" /\ InTry
    /\ \E mid_query \in BOOLEAN : RaiseKeyboardInterrupt(mid_query)
    /\ conn' = "closed"
    /\ pc' = "interrupted"
    /\ UNCHANGED <<script, avail, absent, idx, reading, v2Vars, notV2>>

\* po420_honda_spec live_o2_monitoring: "except KeyboardInterrupt" around
\* the while-loop prints "Monitoring stopped by user"; the function returns
\* and main goes on to analyze_p0420_without_o2 on the same connection.
HondaLiveInterrupt ==
    /\ script = "honda" /\ pc = "live_o2_monitoring"
    /\ \E mid_query \in BOOLEAN :
          /\ mid_query => NextQuery # ""
          /\ interrupted' =
                [where |-> pc,
                 inflight |-> IF mid_query THEN NextQuery ELSE ""]
    /\ pc' = "analyze_stft" /\ idx' = 0 /\ round' = 0
    /\ reading' = NoReading
    /\ working_sensors' = <<>> /\ avail' = {} /\ absent' = {}
    /\ sent' = <<>> /\ adhoc' = {}
    /\ UNCHANGED <<script, conn, notHonda, stft, ltft, fuelMixture,
                   analysisError, diagnosis>>

\* po420_honda_spec main outside live_o2_monitoring: nothing catches
\* KeyboardInterrupt; the finally block closes the connection and the
\* exception ends the process.
HondaInterrupt ==
    /\ script = "honda" /\ InTry /\ pc # "live_o2_monitoring"
    /\ \E mid_query \in BOOLEAN : RaiseKeyboardInterrupt(mid_query)
    /\ conn' = "closed"
    /\ pc' = "interrupted"
    /\ UNCHANGED <<script, avail, absent, idx, reading, notHonda,
                   hondaVars>>

\* test_vin main: nothing catches KeyboardInterrupt raised outside the
\* ATDP query; the finally block closes the connection and the exception
\* ends the process.
VinInterrupt ==
    /\ script = "vin" /\ InTry
    /\ \E mid_query \in BOOLEAN : RaiseKeyboardInterrupt(mid_query)
    /\ conn' = "closed"
    /\ pc' = "interrupted"
    /\ UNCHANGED <<script, avail, absent, idx, reading, vinVars, notVin>>

\* test_elm327_info: the bare "except:" around the ATDP query catches a
\* KeyboardInterrupt raised inside it as well: "Could not determine current
\* protocol" is printed and the script goes on.
VinElmProtocolInterrupt ==
    /\ script = "vin" /\ pc = "elm_protocol"
    /\ sent' = Query(sent, "ATDP")
    /\ interrupted' = [where |-> pc, inflight |-> "ATDP"]
    /\ adhoc' = adhoc \cup AdHocAt
    /\ reading' = [cmd |-> "ATDP", st |-> "KeyboardInterrupt", val |-> "",
                   analysis |-> "None", detail |-> "Dropped"]
    /\ pc' = "info_commands" /\ idx' = 1
    /\ UNCHANGED <<script, avail, absent, conn, vinVars, notVin>>

\* elm327_tsx_reader main: "except KeyboardInterrupt" around the menu loop
\* prints "Exiting..." and the finally block follows.
ElmInterrupt ==
    /\ script = "elm" /\ InTry
    /\ \E mid_query \in BOOLEAN : RaiseKeyboardInterrupt(mid_query)
    /\ pc' = "finally"
    /\ UNCHANGED <<script, avail, absent, conn, idx, reading, elmVars,
                   notElm>>

Next ==
    \/ V2Connect
    \/ V2ReadO2SensorsEnter
    \/ V2ReadO2Sensor
    \/ V2ReadO2SensorsReturn
    \/ V2ReadFuelTrimEnter
    \/ V2ReadFuelTrim
    \/ V2ReadFuelTrimReturn
    \/ V2ReadCatalystTemp
    \/ V2ReadCatalystTempReturn
    \/ V2Finally
    \/ HondaConnect
    \/ HondaTestStandardPid
    \/ HondaTestStandardPidsEnd
    \/ HondaTestHondaPid
    \/ HondaTestAllReturn
    \/ HondaTestWideband
    \/ HondaTestWidebandReturn
    \/ HondaLiveSample
    \/ HondaLiveSleep
    \/ HondaAnalyzeStft
    \/ HondaAnalyzeLtft
    \/ HondaFinally
    \/ VinConnect
    \/ VinTestVinCommand
    \/ VinTestRawVinCommand
    \/ VinTestRawVinCommandsReturn
    \/ VinTestElmProtocol
    \/ VinTestElmInfo
    \/ VinTestElmInfoReturn
    \/ VinTestSupportedPidsMode01
    \/ VinTestSupportedPidsMode09
    \/ VinFinally
    \/ ElmConnect
    \/ ElmMenu
    \/ ElmReadDtcs
    \/ ElmReadPendingDtcs
    \/ ElmReadLiveData
    \/ ElmReadLiveDataReturn
    \/ ElmClearDtcs
    \/ ElmReadVehicleInfo
    \/ ElmReadVehicleInfoReturn
    \/ ElmFinally
    \/ V2Interrupt
    \/ HondaLiveInterrupt
    \/ HondaInterrupt
    \/ VinInterrupt
    \/ VinElmProtocolInterrupt
    \/ ElmInterrupt
    \/ CodesMenu
    \/ CodesListAllCommands
    \/ CodesSearchCommands
    \/ CodesTestCommandExists
    \/ CodesFuelTrimCommand
    \/ CodesFuelTrimCommandsReturn

Spec == Init /\ [][Next]_vars

(***************************************************************************)
(* Properties                                                              *)
(***************************************************************************)
\* Index of the first result of rs whose status is in sts, 0 when none is.
FirstIndex(rs, sts) ==
    IF \E i \in 1..Len(rs) : rs[i].st \in sts
    THEN CHOOSE i \in 1..Len(rs) :
            rs[i].st \in sts /\ \A j \in 1..(i - 1) : rs[j].st \notin sts
    ELSE 0

\* read_catalyst_temp has returned.
CatalystProbeDone ==
    script = "v2" /\ (pc = "finally" \/ (pc = "done" /\ conn = "closed"))

\* The probe reports the result of candidate k (0: none) and processed no
\* candidate after it.
CatalystProbeStoppedAt(k) ==
    IF k = 0
    THEN catOutcome = Unsupported /\ Len(catResults) = Len(temp_commands)
    ELSE catOutcome = catResults[k] /\ Len(catResults) = k

\* C1 (as stated): the probe returns the result of the earliest candidate
\* whose result is not Unsupported, whatever it is (Ok, NoData or
\* TransportError), and does not move on to a later candidate; it returns
\* Unsupported exactly when every candidate is Unsupported.
C1_AsStated ==
    CatalystProbeDone =>
        CatalystProbeStoppedAt(
            FirstIndex(catResults, {"Ok", "NoData", "TransportError"}))

\* C1 (amended): the probe returns the result of the earliest candidate
\* whose result is Ok and processes no candidate after it; it reports
\* "not available" (Unsupported) exactly when no candidate is Ok.  A
\* candidate that answers with no data or with a transport error does not
\* end the probe.
C1_FirstOkWins ==
    CatalystProbeDone =>
        /\ CatalystProbeStoppedAt(FirstIndex(catResults, {"Ok"}))
        /\ catOutcome = Unsupported <=>
              \A i \in 1..Len(catResults) : catResults[i].st # "Ok"

\* C1 witness: a supported candidate answered without a value, the probe
\* moved on and the next candidate's value is the reported result.
C1_Witness ==
    /\ CatalystProbeDone
    /\ Len(catResults) = 2
    /\ catResults[1].st \in {"NoData", "TransportError"}
    /\ catResults[2].st = "Ok"
    /\ catOutcome = catResults[2]

\* A query was issued for candidate j of temp_commands.
CatalystTransmitted(j) == \E n \in 1..Len(sent) : sent[n] = temp_commands[j]

\* C2 (as stated): no transmission is issued for a candidate that comes
\* after the first candidate whose result is not Unsupported.
C2_AsStated ==
    script = "v2" =>
        \A i \in 1..Len(catResults) : \A j \in (i + 1)..Len(temp_commands) :
            catResults[i].st # "Unsupported" => ~CatalystTransmitted(j)

\* C2 (amended): no transmission is issued for a candidate that comes after
\* the first candidate whose result is Ok, a candidate is transmitted only
\* when the library has it, and for [A(Unsupported), B(Ok(v)), C] the
\* result is Ok(v) and C is never transmitted.
C2_NoTransmissionAfterOk ==
    script = "v2" =>
        /\ \A i \in 1..Len(catResults) : \A j \in (i + 1)..Len(temp_commands) :
              catResults[i].st = "Ok" => ~CatalystTransmitted(j)
        /\ \A j \in 1..Len(temp_commands) :
              CatalystTransmitted(j) <=>
                 (j <= Len(catResults) /\ catResults[j].st # "Unsupported")
        /\ (CatalystProbeDone /\ Len(catResults) >= 2
               /\ catResults[1].st = "Unsupported" /\ catResults[2].st = "Ok")
           => (catOutcome = catResults[2] /\ ~CatalystTransmitted(3))

\* C2 witness: the probe over [A(Unsupported), B(Ok), C] has returned and C
\* was not transmitted.
C2_Witness ==
    /\ CatalystProbeDone
    /\ Len(catResults) = 2
    /\ catResults[1].st = "Unsupported"
    /\ catResults[2].st = "Ok"
    /\ CatalystTransmitted(2)
    /\ ~CatalystTransmitted(3)

\* The o2_commands entry the printed reading belongs to.
ReadingEntry ==
    CHOOSE c \in {o2_commands(avail)[i] : i \in 1..Len(o2_commands(avail))} :
        c.cmd = reading.cmd

\* A voltage was read and analysed in read_o2_sensors.
O2Analysed == script = "v2" /\ pc = "o2_loop" /\ reading.st = "Ok"

\* C7: a sensor before the catalytic converter (upstream) is LeanSuspect
\* below 0.1 V, RichSuspect above 0.9 V and NormalSwitching otherwise; a
\* sensor after it (downstream) is CatalystLikelyOk below 0.6 V and
\* CatalystLikelyFailing from 0.6 V on; neither gets the other's verdicts.
C7_ClassifyO2Sensor ==
    O2Analysed =>
        IF ReadingEntry.location = "Pre-catalytic converter"
        THEN /\ reading.val < 10 => reading.analysis = "LeanSuspect"
             /\ reading.val > 90 => reading.analysis = "RichSuspect"
             /\ (reading.val >= 10 /\ reading.val <= 90)
                   => reading.analysis = "NormalSwitching"
        ELSE /\ reading.val < 60 => reading.analysis = "CatalystLikelyOk"
             /\ reading.val >= 60
                   => reading.analysis = "CatalystLikelyFailing"

\* C7 witness: the Bank 2 upstream sensor read above 0.9 V.
C7_Witness ==
    /\ O2Analysed
    /\ reading.cmd = "O2_B2S1"
    /\ reading.val > 90
    /\ reading.analysis = "RichSuspect"

\* C8 (as stated): exactly 0.1 V and 0.9 V upstream are NormalSwitching and
\* exactly 0.6 V downstream is CatalystLikelyOk.
C8_AsStated ==
    O2Analysed =>
        IF ReadingEntry.location = "Pre-catalytic converter"
        THEN reading.val \in {10, 90} => reading.analysis = "NormalSwitching"
        ELSE reading.val = 60 => reading.analysis = "CatalystLikelyOk"

\* C8 (amended): exactly 0.1 V and 0.9 V upstream are NormalSwitching, and
\* exactly 0.6 V downstream is CatalystLikelyFailing.
C8_Boundaries ==
    O2Analysed =>
        IF ReadingEntry.location = "Pre-catalytic converter"
        THEN reading.val \in {10, 90} => reading.analysis = "NormalSwitching"
        ELSE reading.val = 60 => reading.analysis = "CatalystLikelyFailing"

\* C8 witness: a downstream sensor read exactly 0.6 V.
C8_Witness ==
    /\ O2Analysed
    /\ ReadingEntry.location = "Post-catalytic converter"
    /\ reading.val = 60
    /\ reading.analysis = "CatalystLikelyFailing"

\* The order in which test_vin main can transmit.
VinOrder ==
    <<"VIN", "0902", "0904", "090A", "ATDP", "ELM_VERSION", "ELM_VOLTAGE",
      "PIDS_A", "0900">>

VinPosition(x) == CHOOSE i \in 1..Len(VinOrder) : VinOrder[i] = x

\* Transmissions happened in the fixed order, none twice.
VinInOrder ==
    \A m \in 1..Len(sent) : \A n \in (m + 1)..Len(sent) :
        VinPosition(sent[m]) < VinPosition(sent[n])

\* test_vin main ran its try block to the end and closed the connection.
VinRunDone == script = "vin" /\ pc = "done" /\ conn = "closed"

\* C3 (as stated): the steps run in the fixed order canonical VIN command,
\* raw 0902 request, supported-PID bitmask; the first step that yields a
\* VIN ends the chain and no later step is executed; a run without a VIN
\* ends with the failure report.
C3_AsStated ==
    script = "vin" =>
        /\ VinInOrder
        /\ Truthy(vin, "") => sent = <<"VIN">>
        /\ vinReport.raw0902 = "Ok" => Last(sent) = "0902"
        /\ (VinRunDone /\ ~Truthy(vin, "") /\ vinReport.raw0902 # "Ok")
              => vinReport.alternatives

\* C3 (amended): the steps run in the fixed order canonical VIN command,
\* raw requests (0902 first), adapter information, supported-PID bitmasks;
\* only a VIN from the canonical command ends the chain, with no later step
\* executed; otherwise every raw request and the later steps are executed
\* whatever the 0902 request answered, and the run ends with the failure
\* report (the alternative methods).
C3_OnlyCanonicalVinEndsChain ==
    script = "vin" =>
        /\ VinInOrder
        /\ Truthy(vin, "") => (sent = <<"VIN">> /\ vinReport = NoVinReport)
        /\ (VinRunDone /\ ~Truthy(vin, ""))
              => /\ \A n \in 2..(Len(VinOrder) - 1) : \E m \in 1..Len(sent) :
                       sent[m] = VinOrder[n]
                 /\ vinReport.raw0902 # "NotTried"
                 /\ vinReport.alternatives

\* C3 witness: the raw 0902 request returned a value, and the later steps
\* up to the Mode 09 bitmask were executed all the same.
C3_Witness ==
    /\ VinRunDone
    /\ vinReport.raw0902 = "Ok"
    /\ Last(sent) = "0900"
    /\ vinReport.alternatives

\* C4 (as stated): when the Mode 09 bitmask has the bit of PID 2 clear, the
\* verdict is NotSupported and the raw 0902 request is never transmitted in
\* that run.
C4_AsStated ==
    (script = "vin" /\ vinReport.pid02 = "NotSupported")
        => Count(sent, "0902") = 0

\* C4 (amended): when the Mode 09 bitmask has the bit of PID 2 clear, the
\* verdict is NotSupported; the raw 0902 request was transmitted exactly
\* once in that run, before the bitmask request, and nothing is transmitted
\* after the bitmask request.
C4_Raw0902BeforeBitmask ==
    (script = "vin" /\ vinReport.pid02 = "NotSupported")
        => /\ Count(sent, "0902") = 1
           /\ Last(sent) = "0900"
           /\ reading.val # {} /\ 2 \notin reading.val
           /\ \E m \in 1..Len(sent) : \E n \in (m + 1)..Len(sent) :
                 sent[m] = "0902" /\ sent[n] = "0900"

\* C4 witness: a finished run whose bitmask lacked PID 2.
C4_Witness ==
    /\ VinRunDone
    /\ vinReport.pid02 = "NotSupported"
    /\ reading.cmd = "0900"
    /\ reading.val = {1, 3}

\* The loops that query a list of candidates one by one, and the candidate
\* of the iteration about to run.
QueryLoops == {"standard_pids", "read_live_data"}
LoopCandidate ==
    IF pc = "standard_pids" THEN standard_pids[idx] ELSE commands[idx]

\* C5: one query is at most one transmission: none, with the result
\* Unsupported, exactly when the command is not available, and exactly one
\* otherwise; after a transport error the loop moves to the next candidate
\* and the command is not transmitted again.
C5_OneTransmissionPerQuery ==
    [][(pc \in QueryLoops /\ pc' = pc) =>
          /\ reading'.cmd = LoopCandidate
          /\ idx' = idx + 1
          /\ (reading'.st = "Unsupported") <=> (LoopCandidate \in absent')
          /\ IF reading'.st = "Unsupported"
             THEN sent' = sent
             ELSE sent' = Append(sent, LoopCandidate)]_vars

\* C5 witness: the first standard command was unsupported and not
\* transmitted; the second was transmitted once and failed in transport.
C5_Witness ==
    /\ script = "honda" /\ pc = "standard_pids" /\ idx = 3
    /\ "O2_B1S1" \in absent
    /\ reading.cmd = "O2_B1S2"
    /\ reading.st = "TransportError"
    /\ sent = <<"O2_B1S2">>

\* analyze_p0420_without_o2 has printed its diagnosis.
AnalysisDone ==
    script = "honda" /\ (pc = "finally" \/ (pc = "done" /\ conn = "closed"))

\* C6: with both trims present the verdict is Normal below a total of 10,
\* Elevated from 10 to below 20 and High from 20 on.
C6_ClassifyFuelTrim ==
    (AnalysisDone /\ stft.st = "Ok" /\ ltft.st = "Ok") =>
        LET total == Abs(stft.val) + Abs(ltft.val) IN
        /\ total < 10 => fuelMixture = "Normal"
        /\ (total >= 10 /\ total < 20) => fuelMixture = "Elevated"
        /\ total >= 20 => fuelMixture = "High"

\* C6 witness: short 15, long -5: a total of exactly 20 is High.
C6_Witness ==
    /\ AnalysisDone
    /\ stft = Ok(15) /\ ltft = Ok(-5)
    /\ fuelMixture = "High"

\* C9 (as stated): when the fuel trim verdict is High the catalyst
\* assessment is Inconclusive: neither the converter nor the mixture is
\* declared fine or at fault.
C9_AsStated ==
    (AnalysisDone /\ fuelMixture = "High") =>
        /\ diagnosis.catalyst \notin {"LikelyOk", "LikelyFailing"}
        /\ diagnosis.mixture # "NotCausing"

\* C10: an absent trim never raises and gives no verdict: the pair verdict
\* is Unknown when either trim is absent, and the per-value analysis of
\* read_fuel_trim prints nothing for an absent value.
C10_AbsentIsUnknown ==
    /\ (AnalysisDone /\ (stft.st # "Ok" \/ ltft.st # "Ok"))
          => (fuelMixture = "Unknown" /\ analysisError # "TypeError")
    /\ (script = "v2" /\ pc = "trim_loop" /\ reading.st # "Ok")
          => reading.analysis = "None"

\* C10 witness: the short term trim is absent, the long term trim is -3.
C10_Witness ==
    /\ AnalysisDone
    /\ stft.st = "NoData" /\ ltft = Ok(-3)
    /\ fuelMixture = "Unknown"
    /\ analysisError = "None"

\* C11 (as stated): a supported command without a payload is reported as
\* NoData and never as Unsupported, and a command that is not supported is
\* reported as Unsupported and never as NoData: in the name loop of
\* test_all_o2_sensor_pids the report tells the two apart, and the candidate
\* probe read_catalyst_temp reports "not available" only when no candidate
\* was supported.
C11_AsStated ==
    /\ (script = "honda" /\ pc = "standard_pids") =>
          /\ reading.st = "Unsupported" => reading.cmd \in absent
          /\ reading.st = "NoData" => reading.cmd \in avail
    /\ (CatalystProbeDone /\ catOutcome = Unsupported) =>
          \A i \in 1..Len(catResults) : catResults[i].st = "Unsupported"

\* C12 (as stated): a failure raised by a query is reported together with
\* its detail: the report of every failed query shows the exception text.
C12_AsStated ==
    reading.st = "TransportError" => reading.detail = "Shown"

\* C13 (as stated): when live monitoring stops because of a cancellation,
\* no query was transmitted whose response was not received.
C13_AsStated ==
    interrupted.where = "live_o2_monitoring" => interrupted.inflight = ""

\* C17: CLEAR_DTC is transmitted only by clear_dtcs, reached through menu
\* choice 3, and only when the confirmation read is "y" or "Y"; for every
\* other confirmation clear_dtcs transmits nothing at all.
C17_ClearOnlyAfterConfirmation ==
    [][/\ (Count(sent', "CLEAR_DTC") # Count(sent, "CLEAR_DTC")) =>
             /\ pc = "clear_dtcs" /\ choice = "3"
             /\ response' \in {"y", "Y"}
             /\ sent' = Append(sent, "CLEAR_DTC")
       /\ (pc = "clear_dtcs" /\ response' \notin {"y", "Y"}) =>
             sent' = sent]_vars

\* C17 witness: in one session the user chose 3 and declined (nothing was
\* transmitted), chose 3 again and confirmed with "Y": CLEAR_DTC is the only
\* transmission.
C17_Witness ==
    /\ script = "elm" /\ pc = "menu" /\ menus = 2
    /\ choice = "3" /\ response = "Y"
    /\ sent = <<"CLEAR_DTC">>

\* C18 (as stated): when main has returned (or the process has ended) no
\* connection the script opened is still open, and no query is transmitted
\* on a closed connection.
C18_AsStated ==
    /\ pc \in {"done", "interrupted"} => conn # "open"
    /\ conn = "closed" => pc \in {"done", "interrupted"}

\* C15 (as stated): command identities are unique: at no time do two of the
\* commands the script has constructed share one identity while their PIDs
\* differ.
C15_AsStated ==
    \A a \in adhoc : \A b \in adhoc :
        a.identity = b.identity => a.pid = b.pid

\* search_commands has printed its result for the term read last.
SearchDone == script = "codes" /\ search_term # <<>>

\* The text holds the term when the case of the letters is ignored.
ContainsIgnoringCase(term, text) ==
    IsSubstring(str_lower(term), str_lower(text))

\* The commands of the library whose identity or description holds the
\* term read last, ignoring case.
SearchHits ==
    {a \in library :
        /\ a.is_command
        /\ \/ ContainsIgnoringCase(search_term, a.attr_name)
           \/ ContainsIgnoringCase(search_term, a.desc)}

\* C14: search returns exactly the commands whose identity or description
\* holds the term, compared without regard to case, each once, in
\* increasing order of identity; when nothing matches the result is empty
\* and nothing is raised.
C14_SearchCommands ==
    SearchDone =>
        /\ {results[i] : i \in 1..Len(results)}
              = {a.attr_name : a \in SearchHits}
        /\ Len(results) = Cardinality(SearchHits)
        /\ \A i \in 1..(Len(results) - 1) :
              StrLess(results[i], results[i + 1])
        /\ pc # "raised"

\* C14 witness: the term "engine" is in no identity, but in two
\* descriptions ("Engine Coolant Temperature", "Engine RPM"): both commands
\* are returned, in order of identity.
C14_Witness ==
    /\ SearchDone
    /\ search_term = Term_engine
    /\ results = <<Name_COOLANT_TEMP, Name_RPM>>

ListDone == script = "codes" /\ pc = "menu" /\ choice = "1"

\* C19: the listing by category is a partition: every discovered command
\* is listed once, in one category: the first of Engine, Fuel, Temperature,
\* Pressure, Sensors, Emission, System one of whose keywords is in the
\* lower-cased name, Other when there is none; nothing else is listed;
\* FUEL_PRESSURE is listed under Fuel and not under Pressure; and every
\* category is in increasing order of name.
C19_CategoriesPartition ==
    ListDone =>
        /\ \A a \in library :
              a.is_command =>
                 LET name_lower == str_lower(a.attr_name)
                     holders ==
                        {i \in 1..Len(Categories) :
                            Count(categories[Categories[i]], a.attr_name)
                               > 0}
                 IN /\ Cardinality(holders) = 1
                    /\ \A i \in holders :
                          /\ Count(categories[Categories[i]], a.attr_name)
                                = 1
                          /\ i < Len(Categories)
                                => any_keyword(Categories[i], name_lower)
                          /\ \A j \in 1..(i - 1) :
                                ~any_keyword(Categories[j], name_lower)
        /\ \A i \in 1..Len(Categories) :
              LET listed == categories[Categories[i]]
              IN /\ \A k \in 1..Len(listed) :
                       \E a \in library :
                           a.is_command /\ a.attr_name = listed[k]
                 /\ \A k \in 1..(Len(listed) - 1) :
                       StrLess(listed[k], listed[k + 1])
        /\ (\E a \in library : a.attr_name = Name_FUEL_PRESSURE) =>
              /\ Count(categories["Fuel"], Name_FUEL_PRESSURE) = 1
              /\ Count(categories["Pressure"], Name_FUEL_PRESSURE) = 0

\* C19 witness: FUEL_PRESSURE holds a keyword of Fuel and one of Pressure
\* and is listed under Fuel; INTAKE_PRESSURE is listed under Pressure.
C19_Witness ==
    /\ ListDone
    /\ categories["Fuel"] = <<Name_FUEL_PRESSURE>>
    /\ categories["Pressure"] = <<Name_INTAKE_PRESSURE>>
    /\ categories["Other"] = <<Name_SPEED>>

====
